---- MODULE Spec2Model ----
(***************************************************************************)
(* Financial Ledger API (app/main.py, app/models.py, app/database.py).     *)
(*                                                                         *)
(* The committed contents of the PostgreSQL tables accounts, transactions  *)
(* and ledger_entries are the shared state.  Every request handler runs in *)
(* its own SQLAlchemy session (get_db) at isolation level READ COMMITTED:  *)
(* each SQL statement of a handler is one atomic step that reads the rows  *)
(* committed at that moment, rows written by flush() stay private to the   *)
(* session until commit(), and commit() publishes them in one step.        *)
(* Request amounts are decimals; the model counts them in tenths of the    *)
(* last digit a Numeric(19, 4) column keeps, so that a column value is a   *)
(* multiple of Quantum and a request amount need not be.                   *)
(***************************************************************************)
EXTENDS Integers, FiniteSets, Sequences, TLC

\* ---------------------------------------------------------------- bounds
Sessions == {"s1", "s2"}            \* concurrent request handlers
AccountIds == {"A", "B", "C"}       \* identifiers a request can name
InitialAccounts == {"A", "B"}       \* rows of accounts present at start
Amounts == {60}                     \* request amounts (all pass gt=0)
MaxRequests == 2                    \* requests dispatched in one behaviour
OpeningDeposit == 100               \* amount of the deposit a funded start holds

None == "None"

\* models.py:56 and models.py:74: Numeric(19, 4) keeps four fractional digits,
\* Quantum units of the model.
Quantum == 10

\* The value PostgreSQL stores when x (x >= 0) is written into a Numeric(19, 4)
\* column: x rounded to the column's scale, halves away from zero.
Numeric(x) == ((2 * x + Quantum) \div (2 * Quantum)) * Quantum

\* ---------------------------------------------------------------- models.py
AccountStatus == {"active", "frozen", "closed"}
TransactionType == {"transfer", "deposit", "withdrawal"}
TransactionStatus == {"pending", "completed", "failed"}
EntryType == {"debit", "credit"}

Transaction(id, type, source, destination, amount, status) ==
    [id |-> id, type |-> type, source_account_id |-> source,
     destination_account_id |-> destination, amount |-> amount,
     status |-> status]

LedgerEntry(account, transaction_id, entry_type, amount) ==
    [id |-> <<transaction_id, entry_type>>, account_id |-> account,
     transaction_id |-> transaction_id, entry_type |-> entry_type,
     amount |-> amount]

VARIABLES
    accounts,        \* committed table accounts: id -> status, None = no row
    transactions,    \* committed table transactions
    ledger_entries,  \* committed table ledger_entries
    pc,              \* per session: the statement its handler executes next
    req,             \* per session: the request being handled
    debit_sum,       \* per session: get_account_balance's debit_sum
    credit_sum,      \* per session: get_account_balance's credit_sum
    tx,              \* per session: the handler's tx object (NoTransaction before it is built)
    response,        \* per session: the HTTP response of the last handler
    seen,            \* history: balances the account had while the session's
                     \*          get_account_balance call was running
    posted,          \* history: commits made for the session's current
                     \*          request, over all its attempts
    begun            \* history: requests dispatched so far

vars == <<accounts, transactions, ledger_entries, pc, req, debit_sum,
          credit_sum, tx, response, seen, posted, begun>>

store == <<accounts, transactions, ledger_entries>>

\* ---------------------------------------------------------------- helpers
RECURSIVE SumAmounts(_)
SumAmounts(S) ==
    IF S = {} THEN 0
    ELSE LET e == CHOOSE x \in S : TRUE
         IN e.amount + SumAmounts(S \ {e})

\* Mutant of DebitSum: the query lacks its filter on account_id.
DebitSumAllAccounts(entries, a) ==
    SumAmounts({e \in entries : e.entry_type = "debit"})

\* main.py:82-85, the first query of get_account_balance
DebitSum(entries, a) ==
    SumAmounts({e \in entries : e.account_id = a /\ e.entry_type = "debit"})

\* Mutant of CreditSum: the query lacks its filter on account_id.
CreditSumAllAccounts(entries, a) ==
    SumAmounts({e \in entries : e.entry_type = "credit"})

\* main.py:87-90, the second query of get_account_balance
CreditSum(entries, a) ==
    SumAmounts({e \in entries : e.account_id = a /\ e.entry_type = "credit"})

\* main.py:92
BalanceOf(credit, debit) == credit - debit

\* The balance of account a in one committed state of ledger_entries.
Balance(entries, a) == BalanceOf(CreditSum(entries, a), DebitSum(entries, a))

\* main.py:176 and main.py:289, the sufficiency check
Insufficient(balance, amount) == balance < amount

\* The value of the handler's variable tx before models.Transaction(...) is built.
NoTransaction == Transaction(0, None, None, None, 0, None)

Response(code, detail) == [status_code |-> code, detail |-> detail]
NoResponse == Response(0, "")

\* uuid.uuid4(): an identifier no stored row and no live object carries.
TxIds == 1 .. (MaxRequests + 2)
UsedTxIds ==
    {t.id : t \in transactions} \cup {tx[q].id : q \in Sessions}
NewTxId == CHOOSE i \in TxIds \ UsedTxIds : \A j \in TxIds \ UsedTxIds : i <= j

\* The account whose balance the handler of request r reads.
BalanceAccount(r) ==
    CASE r.kind = "transfer" -> r.source_account_id
      [] r.kind = "withdrawal" -> r.account_id
      [] r.kind = "get_account" -> r.account_id
      [] r.kind = "create_account" -> r.account_id
      [] OTHER -> None

Requests ==
    [kind : {"transfer"}, source_account_id : AccountIds,
     destination_account_id : AccountIds, amount : Amounts]
    \cup [kind : {"deposit", "withdrawal"}, account_id : AccountIds, amount : Amounts]
    \cup [kind : {"get_account"}, account_id : AccountIds]
    \cup {[kind |-> "create_account", account_id |-> None]}

Postings == {"transfer", "deposit", "withdrawal"}

\* main.py:68, 73, 78: amount: Decimal = Field(..., gt=0)
Valid(r) == r.kind \in Postings => r.amount > 0

NoRequest == [kind |-> None]

\* ---------------------------------------------------------------- shared steps
\* Balances recorded for the sessions whose get_account_balance call has made
\* its first query and not yet its second, once entries becomes the committed
\* content of ledger_entries.
SeenAfter(p, entries) ==
    [q \in Sessions |->
        IF q # p /\ pc[q] = "credit_sum"
        THEN seen[q] \cup {Balance(entries, BalanceAccount(req[q]))}
        ELSE seen[q]]

\* The handler of session p ends with an HTTP response; get_db closes the session.
Respond(p, code, detail) ==
    /\ pc' = [pc EXCEPT ![p] = "idle"]
    /\ response' = [response EXCEPT ![p] = Response(code, detail)]

\* FastAPI dispatches request r to its handler with a fresh session.
Begin(p, r) ==
    /\ pc[p] = "idle"
    /\ begun < MaxRequests
    /\ begun' = begun + 1
    /\ Valid(r)
    /\ r.kind = "create_account" =>
          Cardinality({a \in AccountIds : accounts[a] = None}) >
          Cardinality({q \in Sessions : req[q].kind = "create_account" /\ pc[q] = "commit"})
    /\ pc' = [pc EXCEPT ![p] = IF r.kind = "create_account" THEN "commit" ELSE "account"]
    /\ req' = [req EXCEPT ![p] = r]
    /\ debit_sum' = [debit_sum EXCEPT ![p] = 0]
    /\ credit_sum' = [credit_sum EXCEPT ![p] = 0]
    /\ tx' = [tx EXCEPT ![p] = NoTransaction]
    /\ response' = [response EXCEPT ![p] = NoResponse]
    /\ seen' = [seen EXCEPT ![p] = {}]
    /\ UNCHANGED store

\* A client sends a new request, one of the set R.
Dispatch(p, R) ==
    \E r \in R :
        /\ Begin(p, r)
        /\ posted' = [posted EXCEPT ![p] = 0]

NewRequest(p) == Dispatch(p, Requests)

\* A client whose posting was answered 400 sends the same request again.
Retry(p) ==
    /\ req[p].kind \in Postings
    /\ response[p].status_code = 400
    /\ Begin(p, req[p])
    /\ UNCHANGED posted

\* Mutant of AccountQuery: the handler goes on whether or not a row came back.
AccountQueryUntested(p, a, detail, next) ==
    /\ pc' = [pc EXCEPT ![p] = next]
    /\ UNCHANGED <<store, req, debit_sum, credit_sum, tx, response, seen, posted, begun>>

\* db.query(models.Account).filter(id == a).first() followed by the 404 test.
AccountQuery(p, a, detail, next) ==
    /\ IF accounts[a] = None
       THEN Respond(p, 404, detail)
       ELSE /\ pc' = [pc EXCEPT ![p] = next]
            /\ UNCHANGED response
    /\ UNCHANGED <<store, req, debit_sum, credit_sum, tx, seen, posted, begun>>

\* main.py:82-85: the first statement of get_account_balance.
BalanceDebitSum(p) ==
    /\ pc[p] = "debit_sum"
    /\ debit_sum' = [debit_sum EXCEPT ![p] = DebitSum(ledger_entries, BalanceAccount(req[p]))]
    /\ seen' = [seen EXCEPT ![p] = {Balance(ledger_entries, BalanceAccount(req[p]))}]
    /\ pc' = [pc EXCEPT ![p] = "credit_sum"]
    /\ UNCHANGED <<store, req, credit_sum, tx, response, posted, begun>>

\* main.py:87-92 followed by the sufficiency check of a posting.
SufficiencyCheck(p, a, amount) ==
    LET credit == CreditSum(ledger_entries, a)
    IN /\ credit_sum' = [credit_sum EXCEPT ![p] = credit]
       /\ IF Insufficient(BalanceOf(credit, debit_sum[p]), amount)
          THEN Respond(p, 422, "Insufficient funds")
          ELSE /\ pc' = [pc EXCEPT ![p] = "flush"]
               /\ UNCHANGED response
       /\ UNCHANGED <<store, req, debit_sum, tx, seen, posted, begun>>

\* db.add(tx); db.flush(): the INSERT runs inside the session's open database
\* transaction, so the pending row is visible to this session only.
Flush(p, t) ==
    /\ pc[p] = "flush"
    /\ tx' = [tx EXCEPT ![p] = t]
    /\ pc' = [pc EXCEPT ![p] = "commit"]
    /\ UNCHANGED <<store, req, debit_sum, credit_sum, response, seen, posted, begun>>

\* Mutant of Completed: the status update is lost and the row stays pending.
StaysPending(t) == t

\* main.py:208 (and 258, 312): tx.status = COMPLETED
Completed(t) == [t EXCEPT !.status = "completed"]

\* Mutant of Insert: the new rows take the place of the rows their accounts had.
InsertOverwriting(table, rows) ==
    {e \in table : \A r \in rows : r.account_id # e.account_id} \cup rows

\* The INSERT statements the session emits for the objects given to db.add().
Insert(table, rows) == table \cup rows

\* Mutant of Commit: the commit waits while another session holds flushed,
\* uncommitted rows.
CommitAfterOthers(p, entries) ==
    /\ pc[p] = "commit"
    /\ \A q \in Sessions \ {p} : pc[q] # "commit"
    /\ transactions' = transactions \cup {Completed(tx[p])}
    /\ ledger_entries' = Insert(ledger_entries, entries)
    /\ tx' = [tx EXCEPT ![p] = Completed(tx[p])]
    /\ seen' = SeenAfter(p, Insert(ledger_entries, entries))
    /\ posted' = [posted EXCEPT ![p] = posted[p] + 1]
    /\ pc' = [pc EXCEPT ![p] = "refresh"]
    /\ UNCHANGED <<accounts, req, debit_sum, credit_sum, response, begun>>

\* db.commit(): the pending INSERTs of the entries, the UPDATE of the status and
\* the transaction row flushed earlier become visible together.
Commit(p, entries) ==
    /\ pc[p] = "commit"
    /\ transactions' = transactions \cup {Completed(tx[p])}
    /\ ledger_entries' = Insert(ledger_entries, entries)
    /\ tx' = [tx EXCEPT ![p] = Completed(tx[p])]
    /\ seen' = SeenAfter(p, Insert(ledger_entries, entries))
    /\ posted' = [posted EXCEPT ![p] = posted[p] + 1]
    /\ pc' = [pc EXCEPT ![p] = "refresh"]
    /\ UNCHANGED <<accounts, req, debit_sum, credit_sum, response, begun>>

\* db.commit() raises and nothing was committed: db.rollback(), HTTP 400.
CommitError(p) ==
    /\ pc[p] = "commit"
    /\ Respond(p, 400, "commit")
    /\ UNCHANGED <<store, req, debit_sum, credit_sum, tx, seen, posted, begun>>

\* db.refresh(...) after the commit.
Refresh(p) ==
    /\ pc[p] = "refresh"
    /\ IF req[p].kind = "create_account"
       THEN /\ pc' = [pc EXCEPT ![p] = "debit_sum"]
            /\ UNCHANGED response
       ELSE Respond(p, 201, "")
    /\ UNCHANGED <<store, req, debit_sum, credit_sum, tx, seen, posted, begun>>

\* db.refresh(...) raises after the commit went through: db.rollback() finds
\* nothing to undo, HTTP 400.
RefreshError(p) ==
    /\ pc[p] = "refresh"
    /\ Respond(p, 400, "refresh")
    /\ UNCHANGED <<store, req, debit_sum, credit_sum, tx, seen, posted, begun>>

\* ---------------------------------------------------------------- execute_transfer
TransferSource(p) ==
    /\ pc[p] = "account" /\ req[p].kind = "transfer"
    /\ AccountQuery(p, req[p].source_account_id, "Source account not found", "destination")

TransferDestination(p) ==
    /\ pc[p] = "destination" /\ req[p].kind = "transfer"
    /\ AccountQuery(p, req[p].destination_account_id, "Destination account not found",
                    "debit_sum")

TransferCheck(p) ==
    /\ pc[p] = "credit_sum" /\ req[p].kind = "transfer"
    /\ SufficiencyCheck(p, req[p].source_account_id, req[p].amount)

TransferTransaction(r, id) ==
    Transaction(id, "transfer", r.source_account_id, r.destination_account_id,
                Numeric(r.amount), "pending")

TransferFlush(p) ==
    /\ req[p].kind = "transfer"
    /\ Flush(p, TransferTransaction(req[p], NewTxId))

\* Mutant of TransferEntries: the credit entry is never added.
TransferEntriesDebitOnly(t) ==
    {LedgerEntry(t.source_account_id, t.id, "debit", t.amount)}

\* Mutant of TransferEntries: the credit entry is booked on the source account.
TransferEntriesCreditSource(t) ==
    {LedgerEntry(t.source_account_id, t.id, "debit", t.amount),
     LedgerEntry(t.source_account_id, t.id, "credit", t.amount)}

\* Mutant of TransferEntries: the debit of the source is missing.
TransferEntriesCreditOnly(t) ==
    {LedgerEntry(t.destination_account_id, t.id, "credit", t.amount)}

\* main.py:192-206. Both entries are given the request's amount, which their
\* Numeric(19, 4) column stores as the value the transaction row t holds.
TransferEntries(t) ==
    {LedgerEntry(t.source_account_id, t.id, "debit", t.amount),
     LedgerEntry(t.destination_account_id, t.id, "credit", t.amount)}

TransferCommit(p) ==
    /\ req[p].kind = "transfer"
    /\ Commit(p, TransferEntries(tx[p]))

\* ---------------------------------------------------------------- execute_deposit
DepositAccount(p) ==
    /\ pc[p] = "account" /\ req[p].kind = "deposit"
    /\ AccountQuery(p, req[p].account_id, "Account not found", "flush")

DepositTransaction(r, id) ==
    Transaction(id, "deposit", None, r.account_id, Numeric(r.amount), "pending")

DepositFlush(p) ==
    /\ req[p].kind = "deposit"
    /\ Flush(p, DepositTransaction(req[p], NewTxId))

DepositEntries(t) ==
    {LedgerEntry(t.destination_account_id, t.id, "credit", t.amount)}

DepositCommit(p) ==
    /\ req[p].kind = "deposit"
    /\ Commit(p, DepositEntries(tx[p]))

\* ---------------------------------------------------------------- execute_withdrawal
WithdrawalAccount(p) ==
    /\ pc[p] = "account" /\ req[p].kind = "withdrawal"
    /\ AccountQuery(p, req[p].account_id, "Account not found", "debit_sum")

WithdrawalCheck(p) ==
    /\ pc[p] = "credit_sum" /\ req[p].kind = "withdrawal"
    /\ SufficiencyCheck(p, req[p].account_id, req[p].amount)

\* Mutant of WithdrawalTransaction: the account is stored as the destination.
WithdrawalTransactionToDestination(r, id) ==
    Transaction(id, "withdrawal", None, r.account_id, Numeric(r.amount), "pending")

WithdrawalTransaction(r, id) ==
    Transaction(id, "withdrawal", r.account_id, None, Numeric(r.amount), "pending")

WithdrawalFlush(p) ==
    /\ req[p].kind = "withdrawal"
    /\ Flush(p, WithdrawalTransaction(req[p], NewTxId))

WithdrawalEntries(t) ==
    {LedgerEntry(t.source_account_id, t.id, "debit", t.amount)}

WithdrawalCommit(p) ==
    /\ req[p].kind = "withdrawal"
    /\ Commit(p, WithdrawalEntries(tx[p]))

\* ---------------------------------------------------------------- store errors
\* The tx object the handler of request r builds (main.py:180, 238, 292).
PendingTransaction(r, id) ==
    CASE r.kind = "transfer" -> TransferTransaction(r, id)
      [] r.kind = "deposit" -> DepositTransaction(r, id)
      [] r.kind = "withdrawal" -> WithdrawalTransaction(r, id)

\* db.flush() raises: the INSERT did not happen; except Exception ->
\* db.rollback(), HTTP 400.
FlushError(p) ==
    /\ pc[p] = "flush"
    /\ tx' = [tx EXCEPT ![p] = PendingTransaction(req[p], NewTxId)]
    /\ Respond(p, 400, "flush")
    /\ UNCHANGED <<store, req, debit_sum, credit_sum, seen, posted, begun>>

\* ---------------------------------------------------------------- get_account
GetAccount(p) ==
    /\ pc[p] = "account" /\ req[p].kind = "get_account"
    /\ AccountQuery(p, req[p].account_id, "Account not found", "debit_sum")

\* main.py:87-92 inside get_account, then the AccountResponse.
GetAccountBalance(p) ==
    /\ pc[p] = "credit_sum" /\ req[p].kind = "get_account"
    /\ credit_sum' = [credit_sum EXCEPT ![p] = CreditSum(ledger_entries, req[p].account_id)]
    /\ Respond(p, 200, "")
    /\ UNCHANGED <<store, req, debit_sum, tx, seen, posted, begun>>

\* ---------------------------------------------------------------- create_account
\* db.add(new_account); db.commit().  The uuid4 primary key is any identifier
\* without a row; req[p].account_id holds new_account.id from here on.
CreateAccountCommit(p) ==
    /\ pc[p] = "commit" /\ req[p].kind = "create_account"
    /\ \E a \in AccountIds :
          /\ accounts[a] = None
          /\ accounts' = [accounts EXCEPT ![a] = "active"]
          /\ req' = [req EXCEPT ![p].account_id = a]
    /\ pc' = [pc EXCEPT ![p] = "refresh"]
    /\ UNCHANGED <<transactions, ledger_entries, debit_sum, credit_sum, tx, response,
                   seen, posted, begun>>

\* main.py:87-92 inside create_account, then the AccountResponse.
CreateAccountBalance(p) ==
    /\ pc[p] = "credit_sum" /\ req[p].kind = "create_account"
    /\ credit_sum' = [credit_sum EXCEPT ![p] = CreditSum(ledger_entries, req[p].account_id)]
    /\ Respond(p, 201, "")
    /\ UNCHANGED <<store, req, debit_sum, tx, seen, posted, begun>>

\* ---------------------------------------------------------------- initial state
\* The database is either fresh or holds one completed deposit to account A;
\* account A may have been frozen or closed.
OpeningTransaction ==
    Completed(DepositTransaction([account_id |-> "A", amount |-> OpeningDeposit], 1))
OpeningEntries == DepositEntries(OpeningTransaction)

Init ==
    /\ accounts \in {f \in [AccountIds -> AccountStatus \cup {None}] :
                        /\ f["A"] \in AccountStatus
                        /\ \A a \in InitialAccounts \ {"A"} : f[a] = "active"
                        /\ \A a \in AccountIds \ InitialAccounts : f[a] = None}
    /\ \/ /\ transactions = {}
          /\ ledger_entries = {}
       \/ /\ transactions = {OpeningTransaction}
          /\ ledger_entries = OpeningEntries
    /\ pc = [p \in Sessions |-> "idle"]
    /\ req = [p \in Sessions |-> NoRequest]
    /\ debit_sum = [p \in Sessions |-> 0]
    /\ credit_sum = [p \in Sessions |-> 0]
    /\ tx = [p \in Sessions |-> NoTransaction]
    /\ response = [p \in Sessions |-> NoResponse]
    /\ seen = [p \in Sessions |-> {}]
    /\ posted = [p \in Sessions |-> 0]
    /\ begun = 0

\* ---------------------------------------------------------------- specification
Step(p) ==
    \/ TransferSource(p) \/ TransferDestination(p) \/ TransferCheck(p)
    \/ TransferFlush(p) \/ TransferCommit(p)
    \/ DepositAccount(p) \/ DepositFlush(p) \/ DepositCommit(p)
    \/ WithdrawalAccount(p) \/ WithdrawalCheck(p)
    \/ WithdrawalFlush(p) \/ WithdrawalCommit(p)
    \/ GetAccount(p) \/ GetAccountBalance(p)
    \/ CreateAccountCommit(p) \/ CreateAccountBalance(p)
    \/ BalanceDebitSum(p)
    \/ FlushError(p) \/ CommitError(p) \/ Refresh(p) \/ RefreshError(p)

Next == \E p \in Sessions : NewRequest(p) \/ Retry(p) \/ Step(p)

Spec == Init /\ [][Next]_vars


\* ---------------------------------------------------------------- two racing withdrawals
\* Account A holds 100 and every session has just been handed
\* execute_withdrawal(A, 60); no further request arrives.
RacingWithdrawal == [kind |-> "withdrawal", account_id |-> "A", amount |-> 60]

InitC1 ==
    /\ accounts = [a \in AccountIds |-> IF a \in InitialAccounts THEN "active" ELSE None]
    /\ transactions = {OpeningTransaction}
    /\ ledger_entries = OpeningEntries
    /\ pc = [p \in Sessions |-> "account"]
    /\ req = [p \in Sessions |-> RacingWithdrawal]
    /\ debit_sum = [p \in Sessions |-> 0]
    /\ credit_sum = [p \in Sessions |-> 0]
    /\ tx = [p \in Sessions |-> NoTransaction]
    /\ response = [p \in Sessions |-> NoResponse]
    /\ seen = [p \in Sessions |-> {}]
    /\ posted = [p \in Sessions |-> 0]
    /\ begun = Cardinality(Sessions)

NextC1 ==
    \E p \in Sessions :
        \/ WithdrawalAccount(p) \/ BalanceDebitSum(p) \/ WithdrawalCheck(p)
        \/ WithdrawalFlush(p) \/ WithdrawalCommit(p)
        \/ FlushError(p) \/ CommitError(p) \/ Refresh(p) \/ RefreshError(p)

SpecC1 == InitC1 /\ [][NextC1]_vars

\* ---------------------------------------------------------------- a balance query among postings
\* Account A holds the opening deposit and one session has just been handed
\* GET /accounts/A; the clients then send deposits and withdrawals only.
BalanceQuery == [kind |-> "get_account", account_id |-> "A"]
Reader == CHOOSE p \in Sessions : TRUE

InitC9 ==
    /\ accounts = [a \in AccountIds |-> IF a \in InitialAccounts THEN "active" ELSE None]
    /\ transactions = {OpeningTransaction}
    /\ ledger_entries = OpeningEntries
    /\ pc = [p \in Sessions |-> IF p = Reader THEN "account" ELSE "idle"]
    /\ req = [p \in Sessions |-> IF p = Reader THEN BalanceQuery ELSE NoRequest]
    /\ debit_sum = [p \in Sessions |-> 0]
    /\ credit_sum = [p \in Sessions |-> 0]
    /\ tx = [p \in Sessions |-> NoTransaction]
    /\ response = [p \in Sessions |-> NoResponse]
    /\ seen = [p \in Sessions |-> {}]
    /\ posted = [p \in Sessions |-> 0]
    /\ begun = 0

NextC9 ==
    \E p \in Sessions :
        \/ Dispatch(p, {r \in Requests : r.kind \in {"deposit", "withdrawal"}})
        \/ GetAccount(p) \/ BalanceDebitSum(p) \/ GetAccountBalance(p)
        \/ DepositAccount(p) \/ DepositFlush(p) \/ DepositCommit(p)
        \/ WithdrawalAccount(p) \/ WithdrawalCheck(p)
        \/ WithdrawalFlush(p) \/ WithdrawalCommit(p)
        \/ Refresh(p)

SpecC9 == InitC9 /\ [][NextC9]_vars

\* ---------------------------------------------------------------- amounts of any scale
\* The request models take any Decimal: one that fails gt=0, one below half
\* the column's last digit, one between two column values.
AnyAmounts == {0, 4, 15}

AnyAmountRequests ==
    [kind : {"transfer"}, source_account_id : {"A"},
     destination_account_id : {"B"}, amount : AnyAmounts]
    \cup [kind : {"deposit", "withdrawal"}, account_id : {"A"}, amount : AnyAmounts]

\* Request r fails the validation of its request model: FastAPI answers 422
\* and the handler does not run.
Rejected(p, R) ==
    \E r \in R :
        /\ pc[p] = "idle"
        /\ begun < MaxRequests
        /\ begun' = begun + 1
        /\ ~Valid(r)
        /\ req' = [req EXCEPT ![p] = r]
        /\ response' = [response EXCEPT ![p] = Response(422, "validation")]
        /\ tx' = [tx EXCEPT ![p] = NoTransaction]
        /\ posted' = [posted EXCEPT ![p] = 0]
        /\ UNCHANGED <<store, pc, debit_sum, credit_sum, seen>>

NextC16 ==
    \E p \in Sessions :
        \/ Dispatch(p, AnyAmountRequests) \/ Rejected(p, AnyAmountRequests)
        \/ TransferSource(p) \/ TransferDestination(p) \/ TransferCheck(p)
        \/ TransferFlush(p) \/ TransferCommit(p)
        \/ DepositAccount(p) \/ DepositFlush(p) \/ DepositCommit(p)
        \/ WithdrawalAccount(p) \/ WithdrawalCheck(p)
        \/ WithdrawalFlush(p) \/ WithdrawalCommit(p)
        \/ BalanceDebitSum(p) \/ Refresh(p)

SpecC16 == Init /\ [][NextC16]_vars

\* ---------------------------------------------------------------- two concurrent postings
\* Account A holds its opening deposit, account B holds one or none, and
\* every session has just been handed a posting; no further request arrives
\* and the store raises no error. Each handler runs in a thread of its own,
\* so a handler that can take its next step eventually takes it.
SecondOpeningTransaction ==
    Completed(DepositTransaction([account_id |-> "B", amount |-> OpeningDeposit], 2))
SecondOpeningEntries == DepositEntries(SecondOpeningTransaction)

PostingRequests == {r \in Requests : r.kind \in Postings}

InitPair ==
    /\ accounts = [a \in AccountIds |-> IF a \in InitialAccounts THEN "active" ELSE None]
    /\ \/ /\ transactions = {OpeningTransaction}
          /\ ledger_entries = OpeningEntries
       \/ /\ transactions = {OpeningTransaction, SecondOpeningTransaction}
          /\ ledger_entries = OpeningEntries \cup SecondOpeningEntries
    /\ pc = [p \in Sessions |-> "account"]
    /\ req \in [Sessions -> PostingRequests]
    /\ debit_sum = [p \in Sessions |-> 0]
    /\ credit_sum = [p \in Sessions |-> 0]
    /\ tx = [p \in Sessions |-> NoTransaction]
    /\ response = [p \in Sessions |-> NoResponse]
    /\ seen = [p \in Sessions |-> {}]
    /\ posted = [p \in Sessions |-> 0]
    /\ begun = Cardinality(Sessions)

PostingStep(p) ==
    \/ TransferSource(p) \/ TransferDestination(p) \/ TransferCheck(p)
    \/ TransferFlush(p) \/ TransferCommit(p)
    \/ DepositAccount(p) \/ DepositFlush(p) \/ DepositCommit(p)
    \/ WithdrawalAccount(p) \/ WithdrawalCheck(p)
    \/ WithdrawalFlush(p) \/ WithdrawalCommit(p)
    \/ BalanceDebitSum(p) \/ Refresh(p)

NextPair == \E p \in Sessions : PostingStep(p)

SpecPair ==
    InitPair /\ [][NextPair]_vars /\ \A p \in Sessions : WF_vars(PostingStep(p))

\* ---------------------------------------------------------------- claims
\* The accounts a posting request names.
Named(r) ==
    CASE r.kind = "transfer" -> {r.source_account_id, r.destination_account_id}
      [] r.kind \in {"deposit", "withdrawal"} -> {r.account_id}
      [] OTHER -> {}

\* The rows of the store that belong to the posting attempt of session p.
AttemptRows(p) ==
    {t \in transactions : t.id = tx[p].id}
    \cup {e \in ledger_entries : e.transaction_id = tx[p].id}

Answered(p) == pc[p] = "idle" /\ response[p] # NoResponse

\* C1: with balance 100 on A and two concurrent withdrawals of 60, once both
\* have been answered with a success or an Insufficient funds, exactly one of
\* them succeeded and every other one was refused with Insufficient funds.
C1_ExactlyOneWithdrawalSucceeds ==
    (\A p \in Sessions : Answered(p) /\ response[p].status_code \in {201, 422})
    => \E p \in Sessions :
          /\ response[p].status_code = 201
          /\ \A q \in Sessions \ {p} : response[q] = Response(422, "Insufficient funds")

\* C2: in every committed state the derived balance of every account is >= 0.
C2_BalanceNeverNegative ==
    \A a \in AccountIds : Balance(ledger_entries, a) >= 0

\* C3: when a withdrawal or a transfer makes its sufficiency check while the
\* amount exceeds the committed balance of the source account, it is answered
\* 422 Insufficient funds, has built no Transaction and the store is unchanged.
C3_InsufficientFundsRejected ==
    [][\A p \in Sessions :
          (/\ req[p].kind \in {"withdrawal", "transfer"}
           /\ pc[p] = "credit_sum" /\ pc'[p] # "credit_sum"
           /\ Balance(ledger_entries, BalanceAccount(req[p])) < req[p].amount)
          => (/\ response'[p] = Response(422, "Insufficient funds")
              /\ tx'[p] = NoTransaction
              /\ store' = store)]_vars

DebitTotal(t) ==
    SumAmounts({e \in ledger_entries : e.transaction_id = t.id /\ e.entry_type = "debit"})
CreditTotal(t) ==
    SumAmounts({e \in ledger_entries : e.transaction_id = t.id /\ e.entry_type = "credit"})

\* C4 as stated: every completed transaction, of any type, has equal debit and
\* credit sums; stated of the transactions the handlers have committed.
C4_DoubleEntryEveryType ==
    \A p \in Sessions :
        (tx[p] \in transactions /\ tx[p].status = "completed")
        => DebitTotal(tx[p]) = CreditTotal(tx[p])

\* C4 as amended: a completed transfer has debit sum = credit sum = its amount;
\* a completed deposit has credit sum = its amount and no debit; a completed
\* withdrawal has debit sum = its amount and no credit.
C4_DoubleEntryPerType ==
    \A t \in transactions : t.status = "completed" =>
        CASE t.type = "transfer" ->
                DebitTotal(t) = t.amount /\ CreditTotal(t) = t.amount
          [] t.type = "deposit" ->
                DebitTotal(t) = 0 /\ CreditTotal(t) = t.amount
          [] t.type = "withdrawal" ->
                DebitTotal(t) = t.amount /\ CreditTotal(t) = 0

C4_Witness ==
    \E t \in transactions, u \in transactions :
        /\ t.type = "transfer" /\ t.status = "completed"
        /\ u.type = "deposit" /\ u.status = "completed"

\* C5: the commit of a transfer of m from S to D # S adds exactly one new
\* completed transaction, one debit entry of m on S and one credit entry of m on
\* D, both referencing it; balance(S) drops by m, balance(D) rises by m, and no
\* other account, balance or entry changes.
C5_TransferPosting ==
    [][\A p \in Sessions :
          (/\ req[p].kind = "transfer"
           /\ req[p].source_account_id # req[p].destination_account_id
           /\ pc[p] = "commit" /\ pc'[p] = "refresh")
          => LET S == req[p].source_account_id
                 D == req[p].destination_account_id
                 m == req[p].amount
                 newtx == transactions' \ transactions
                 new == ledger_entries' \ ledger_entries
             IN /\ transactions \subseteq transactions'
                /\ ledger_entries \subseteq ledger_entries'
                /\ Cardinality(newtx) = 1
                /\ \A t \in newtx :
                      /\ t = Transaction(t.id, "transfer", S, D, m, "completed")
                      /\ t.id \notin {u.id : u \in transactions}
                      /\ new = {LedgerEntry(S, t.id, "debit", m),
                                LedgerEntry(D, t.id, "credit", m)}
                /\ Cardinality(new) = 2
                /\ Balance(ledger_entries', S) = Balance(ledger_entries, S) - m
                /\ Balance(ledger_entries', D) = Balance(ledger_entries, D) + m
                /\ \A a \in AccountIds \ {S, D} :
                      Balance(ledger_entries', a) = Balance(ledger_entries, a)
                /\ accounts' = accounts]_vars

C5_Witness ==
    \E p \in Sessions :
        /\ req[p].kind = "transfer"
        /\ req[p].source_account_id # req[p].destination_account_id
        /\ pc[p] = "refresh"
        /\ tx[p] \in transactions

\* C6: no committed transaction is pending, every committed entry references a
\* committed completed transaction, and after a posting was refused by
\* validation or failed in flush() or in commit(), no row of that attempt is
\* in the store.
C6_Atomicity ==
    /\ \A t \in transactions : t.status # "pending"
    /\ \A e \in ledger_entries :
          \E t \in transactions : t.id = e.transaction_id /\ t.status = "completed"
    /\ \A p \in Sessions :
          (/\ req[p].kind \in Postings
           /\ Answered(p)
           /\ \/ response[p].status_code \in {404, 422}
              \/ response[p] \in {Response(400, "flush"), Response(400, "commit")})
          => AttemptRows(p) = {}

C6_Witness ==
    /\ transactions # {}
    /\ \E p \in Sessions :
          /\ req[p].kind \in Postings
          /\ Answered(p)
          /\ response[p] = Response(400, "commit")
          /\ tx[p].status = "pending"

\* C7: a posting that names a frozen or closed account is not answered with
\* a success and none of its rows is written.
C7_FrozenAccountRejected ==
    \A p \in Sessions :
        (/\ req[p].kind \in Postings
         /\ \E a \in Named(req[p]) : accounts[a] \in {"frozen", "closed"})
        => /\ response[p].status_code # 201
           /\ AttemptRows(p) = {}

\* C8: a transfer whose source and destination are the same account is not
\* answered with a success and none of its rows is written.
C8_SelfTransferRejected ==
    \A p \in Sessions :
        (/\ req[p].kind = "transfer"
         /\ req[p].source_account_id = req[p].destination_account_id)
        => /\ response[p].status_code # 201
           /\ AttemptRows(p) = {}

\* C9: the value a finished get_account_balance call returns is the balance the
\* account had in one of the committed states that existed during the call.
C9_BalanceFromOneSnapshot ==
    \A p \in Sessions :
        (seen[p] # {} /\ pc[p] # "credit_sum")
        => BalanceOf(credit_sum[p], debit_sum[p]) \in seen[p]

\* C10: over all attempts of one posting request, retries included, at most
\* one transaction is committed.
C10_RetryPostsOnce ==
    \A p \in Sessions : posted[p] <= 1

\* C16: every stored LedgerEntry and every stored Transaction has a strictly
\* positive amount, and a request whose amount is not strictly positive or
\* does not fit the scale of the column is answered with an error and leaves
\* no row behind.
C16_StoredAmountsPositive ==
    /\ \A e \in ledger_entries : e.amount > 0
    /\ \A t \in transactions : t.amount > 0
    /\ \A p \in Sessions :
          (/\ req[p].kind \in Postings
           /\ Answered(p)
           /\ (req[p].amount <= 0 \/ Numeric(req[p].amount) # req[p].amount))
          => /\ response[p].status_code \in {400, 422}
             /\ AttemptRows(p) = {}

\* C11: a deposit of a positive amount m to an existing active account a is
\* never refused, whatever the balance of a: its account lookup leads to the
\* posting, and its commit adds exactly one ledger entry, a credit of amount m
\* on a, adds its transaction as completed with destination a and no source,
\* and raises the balance of a by exactly m.
C11_DepositPosting ==
    [][\A p \in Sessions :
          (req[p].kind = "deposit" /\ req[p].amount > 0 /\ req'[p] = req[p])
          => LET a == req[p].account_id
                 m == req[p].amount
                 id == tx'[p].id
             IN /\ (pc[p] = "account" /\ pc'[p] # "account" /\ accounts[a] = "active")
                   => pc'[p] = "flush"
                /\ (pc[p] = "commit" /\ pc'[p] = "refresh" /\ accounts[a] = "active")
                   => /\ ledger_entries' \ ledger_entries = {LedgerEntry(a, id, "credit", m)}
                      /\ ledger_entries \subseteq ledger_entries'
                      /\ transactions' \ transactions =
                            {Transaction(id, "deposit", None, a, m, "completed")}
                      /\ Balance(ledger_entries', a) = Balance(ledger_entries, a) + m
      ]_vars

\* The credit entries minus the debit entries of account a, summed entry by
\* entry over the whole table.
RECURSIVE SignedSum(_, _)
SignedSum(entries, a) ==
    IF entries = {} THEN 0
    ELSE LET e == CHOOSE x \in entries : TRUE
             rest == SignedSum(entries \ {e}, a)
         IN CASE e.account_id # a -> rest
              [] e.entry_type = "credit" -> rest + e.amount
              [] e.entry_type = "debit" -> rest - e.amount

\* C12: in every reachable state and for every account a, get_account_balance
\* run on the committed ledger gives the credit entries of a minus the debit
\* entries of a, counting no entry of another account, and gives 0 when a has
\* no entry; create_account answers with balance 0 when the new account has
\* no entry.
C12_BalanceLaw ==
    /\ \A a \in AccountIds :
          /\ Balance(ledger_entries, a) = SignedSum(ledger_entries, a)
          /\ ({e \in ledger_entries : e.account_id = a} = {})
             => Balance(ledger_entries, a) = 0
    /\ \A p \in Sessions :
          (/\ req[p].kind = "create_account"
           /\ Answered(p) /\ response[p].status_code = 201
           /\ {e \in ledger_entries : e.account_id = req[p].account_id} = {})
          => BalanceOf(credit_sum[p], debit_sum[p]) = 0

\* A holds credits and a debit, B holds a credit, both balances differ from 0,
\* and a create_account has answered for an account without entries.
C12_Witness ==
    /\ \E e \in ledger_entries : e.account_id = "A" /\ e.entry_type = "debit"
    /\ \E e \in ledger_entries : e.account_id = "A" /\ e.entry_type = "credit"
    /\ \E e \in ledger_entries : e.account_id = "B" /\ e.entry_type = "credit"
    /\ Balance(ledger_entries, "A") # 0
    /\ Balance(ledger_entries, "B") # 0
    /\ \E p \in Sessions :
          /\ req[p].kind = "create_account"
          /\ Answered(p) /\ response[p].status_code = 201
          /\ {e \in ledger_entries : e.account_id = req[p].account_id} = {}

\* C13: ledger entries are append-only: no step of create_account, of a
\* deposit, withdrawal or transfer, of a query or of the rollback of a failed
\* posting removes a committed entry or changes its account, transaction,
\* type or amount; the committed entries only grow.
C13_AppendOnly ==
    [][/\ ledger_entries \subseteq ledger_entries'
       /\ \A e \in ledger_entries : \A f \in ledger_entries' : f.id = e.id => f = e
      ]_vars

\* Entries were committed on top of the opening deposit of A, and postings on
\* A were afterwards refused or rolled back.
C13_Witness ==
    /\ Cardinality(ledger_entries) >= 3
    /\ \E e \in ledger_entries : e.account_id = "A" /\ e.entry_type = "debit"
    /\ \E p \in Sessions :
          /\ req[p].kind \in Postings /\ "A" \in Named(req[p])
          /\ Answered(p) /\ response[p].status_code \in {400, 422}
          /\ AttemptRows(p) = {}

\* C14: the kind of every stored Transaction determines which account
\* references it carries: a transfer has a source and a destination, a
\* deposit has a destination and no source, a withdrawal has a source and no
\* destination.
C14_ReferencesByKind ==
    \A t \in transactions :
        CASE t.type = "transfer" ->
                 t.source_account_id # None /\ t.destination_account_id # None
          [] t.type = "deposit" ->
                 t.source_account_id = None /\ t.destination_account_id # None
          [] t.type = "withdrawal" ->
                 t.source_account_id # None /\ t.destination_account_id = None
          [] OTHER -> FALSE

\* The store holds a transaction of each kind.
C14_Witness ==
    \A k \in TransactionType : \E t \in transactions : t.type = k

\* C15: a posting that names an account identifier without a row leaves no
\* trace: while it runs it has written nothing, and once answered its answer
\* is 404 and the store holds no transaction and no entry of it. For a
\* transfer this covers the source and the destination, the latter also when
\* the source exists and holds the funds. (Rows of accounts are never
\* deleted, so an identifier without a row had none when it was looked up.)
C15_NotFoundNoEffect ==
    \A p \in Sessions :
        (req[p].kind \in Postings /\ \E a \in Named(req[p]) : accounts[a] = None)
        => /\ tx[p] = NoTransaction
           /\ posted[p] = 0
           /\ AttemptRows(p) = {}
           /\ pc[p] \in {"idle", "account", "destination"}
           /\ Answered(p) => response[p].status_code = 404

\* A transfer whose source holds the funds and whose destination has no row
\* has been answered, and so has a posting on an account without a row.
C15_Witness ==
    /\ \E p \in Sessions :
          /\ req[p].kind = "transfer" /\ Answered(p)
          /\ accounts[req[p].source_account_id] # None
          /\ accounts[req[p].destination_account_id] = None
          /\ Balance(ledger_entries, req[p].source_account_id) >= req[p].amount
          /\ response[p] = Response(404, "Destination account not found")
    /\ \E p \in Sessions :
          /\ req[p].kind \in {"deposit", "withdrawal"} /\ Answered(p)
          /\ accounts[req[p].account_id] = None
          /\ response[p] = Response(404, "Account not found")

\* C17: no posting blocks: a deposit, withdrawal or transfer that has not
\* been answered can always take its next step, whatever the other session is
\* doing, and under fair scheduling it is eventually answered, with its
\* commit made or a failure reported; this includes a transfer from A to B
\* running concurrently with a transfer from B to A.
C17_NoPostingBlocks ==
    \A p \in Sessions :
        /\ [](pc[p] # "idle" => ENABLED PostingStep(p))
        /\ (pc[p] # "idle") ~> Answered(p)

\* Two transfers in opposite directions between A and B are in flight
\* together, each holding its flushed rows and about to commit.
C17_Witness ==
    \E p, q \in Sessions :
        /\ req[p].kind = "transfer" /\ req[q].kind = "transfer"
        /\ req[p].source_account_id = "A" /\ req[p].destination_account_id = "B"
        /\ req[q].source_account_id = "B" /\ req[q].destination_account_id = "A"
        /\ pc[p] = "commit" /\ pc[q] = "commit"
        /\ tx[p] # NoTransaction /\ tx[q] # NoTransaction

\* The entries on the ledger before the two postings began.
StartEntries ==
    OpeningEntries
    \cup (IF SecondOpeningTransaction \in transactions THEN SecondOpeningEntries ELSE {})

\* The answer of posting r when it runs alone on a ledger holding entries.
AloneCode(entries, r) ==
    IF \E a \in Named(r) : accounts[a] = None THEN 404
    ELSE IF /\ r.kind \in {"withdrawal", "transfer"}
            /\ Insufficient(Balance(entries, BalanceAccount(r)), r.amount)
         THEN 422
         ELSE 201

\* The ledger after posting r has run alone on a ledger holding entries.
AloneEntries(entries, r, id) ==
    IF AloneCode(entries, r) # 201 THEN entries
    ELSE LET t == Completed(PendingTransaction(r, id))
         IN entries \cup (CASE r.kind = "transfer" -> TransferEntries(t)
                            [] r.kind = "deposit" -> DepositEntries(t)
                            [] r.kind = "withdrawal" -> WithdrawalEntries(t))

\* Ledger entries without the identifiers the store generated for them.
Content(entries) == {<<e.account_id, e.entry_type, e.amount>> : e \in entries}

\* C18: when the two postings name no account in common, then whatever the
\* interleaving of their steps, each gets the answer, and the ledger ends
\* with the entries and the balances, that running the first alone and then
\* the second alone gives, for either choice of which runs first.
C18_DisjointPostingsIndependent ==
    \A p, q \in Sessions :
        (/\ p # q
         /\ Named(req[p]) \cap Named(req[q]) = {}
         /\ Answered(p) /\ Answered(q))
        => LET first == AloneEntries(StartEntries, req[p], 3)
               last == AloneEntries(first, req[q], 4)
           IN /\ response[p].status_code = AloneCode(StartEntries, req[p])
              /\ response[q].status_code = AloneCode(first, req[q])
              /\ Content(ledger_entries) = Content(last)
              /\ Cardinality(ledger_entries) = Cardinality(last)
              /\ \A a \in AccountIds :
                    Balance(ledger_entries, a) = Balance(last, a)

\* Two postings on disjoint accounts, a withdrawal from A and a withdrawal
\* from B, have both committed and been answered.
C18_Witness ==
    \E p, q \in Sessions :
        /\ p # q
        /\ req[p].kind = "withdrawal" /\ req[p].account_id = "A"
        /\ req[q].kind = "withdrawal" /\ req[q].account_id = "B"
        /\ Answered(p) /\ response[p].status_code = 201
        /\ Answered(q) /\ response[q].status_code = 201

\* C19: a withdrawal of m from an existing account, or a transfer of m out of
\* it, is not refused for lack of funds when m is at most the balance of the
\* account, m equal to the balance included; and the commit of the withdrawal
\* adds exactly one ledger entry, a debit of amount m on the account, adds
\* its transaction as completed with the account as source and no
\* destination, and lowers the balance by exactly m.
C19_WithdrawalPosting ==
    [][\A p \in Sessions :
          (req[p].kind \in {"withdrawal", "transfer"} /\ req'[p] = req[p])
          => LET a == BalanceAccount(req[p])
                 m == req[p].amount
                 id == tx'[p].id
             IN /\ (/\ pc[p] = "credit_sum" /\ pc'[p] # "credit_sum"
                    /\ m <= Balance(ledger_entries, a))
                   => pc'[p] = "flush"
                /\ (req[p].kind = "withdrawal" /\ pc[p] = "commit" /\ pc'[p] = "refresh")
                   => /\ ledger_entries' \ ledger_entries = {LedgerEntry(a, id, "debit", m)}
                      /\ ledger_entries \subseteq ledger_entries'
                      /\ transactions' \ transactions =
                            {Transaction(id, "withdrawal", a, None, m, "completed")}
                      /\ Balance(ledger_entries', a) = Balance(ledger_entries, a) - m
      ]_vars

\* The sum of the balances of the accounts in ids.
RECURSIVE TotalBalance(_, _)
TotalBalance(entries, ids) ==
    IF ids = {} THEN 0
    ELSE LET a == CHOOSE x \in ids : TRUE
         IN Balance(entries, a) + TotalBalance(entries, ids \ {a})

\* The total amount of the completed transactions of one kind.
CompletedTotal(kind) ==
    SumAmounts({t \in transactions : t.type = kind /\ t.status = "completed"})

\* C20: in every committed state the balances of all accounts sum to the
\* total of the completed deposits minus the total of the completed
\* withdrawals, and no step of a transfer, whether it commits or fails and
\* whether or not its source and destination differ, changes that sum.
C20_Conservation ==
    /\ [](TotalBalance(ledger_entries, AccountIds)
             = CompletedTotal("deposit") - CompletedTotal("withdrawal"))
    /\ [][\A p \in Sessions :
             (req[p].kind = "transfer" /\ pc[p] # "idle" /\ pc'[p] # pc[p])
             => TotalBalance(ledger_entries', AccountIds)
                   = TotalBalance(ledger_entries, AccountIds)
         ]_vars

\* A transfer from an account to itself has committed, another transfer has
\* been refused or rolled back, and the balances do not sum to zero.
C20_Witness ==
    /\ \E t \in transactions :
          t.type = "transfer" /\ t.source_account_id = t.destination_account_id
    /\ \E p \in Sessions :
          /\ req[p].kind = "transfer" /\ Answered(p)
          /\ response[p].status_code \in {400, 404, 422}
          /\ AttemptRows(p) = {}
    /\ TotalBalance(ledger_entries, AccountIds) # 0

====
